---- MODULE Spec2Model ----
(***************************************************************************)
(* A model of crdtree/src/State.ts: the causal replay engine of a CRDT     *)
(* document.  One State instance owns a log of changes, a seen-set, a      *)
(* high-water clock and a container store (the arena `objects`).           *)
(*                                                                         *)
(* Changes are drawn from a fixed table (Universe); the log holds handles  *)
(* (indices into the table), two copies of one change being two equal      *)
(* handles.  An identity is the string toID gives, "<pid>@<clock>".        *)
(***************************************************************************)
EXTENDS Integers, Sequences, FiniteSets, TLC

\* ------------------------------------------------------------ constants
ROOT == "ROOT"
ROOT_PARENT == "ROOT_PARENT"
\* JavaScript's undefined, where an identity or a value is expected
Undefined == "undefined"

\* ObjectKind
KIND_OTHER == "OTHER"
KIND_OBJECT == "OBJECT"
KIND_ARRAY == "ARRAY"

\* ------------------------------------------------------------ bounds
\* greatest length of a batch handed to addChange
MaxBatch == 2
\* greatest length of a path handed to getElement
MaxPath == 2
\* ------------------------------------------------------------ changes
\* toID(change) = `${pid}@${clock}`, tabulated for the pids and clocks used
IDTable ==
    [a |-> <<"a@1", "a@2", "a@3", "a@4", "a@5">>,
     b |-> <<"b@1", "b@2", "b@3", "b@4", "b@5">>,
     c |-> <<"c@1", "c@2", "c@3", "c@4", "c@5">>,
     d |-> <<"d@1", "d@2", "d@3", "d@4", "d@5">>]

toID(change) == IDTable[change.pid][change.clock]

\* the order of the pid strings
PidRank == [a |-> 1, b |-> 2, c |-> 3, d |-> 4]

Assign(at, in, kind, value) ==
    [type |-> "Assign", at |-> at, idx |-> 0, in |-> in, after |-> Undefined,
     item |-> [kind |-> kind, value |-> value]]
ListAssign(idx, in, kind, value) ==
    [type |-> "ListAssign", at |-> Undefined, idx |-> idx, in |-> in, after |-> Undefined,
     item |-> [kind |-> kind, value |-> value]]
Insert(after, in, kind, value) ==
    [type |-> "Insert", at |-> Undefined, idx |-> 0, in |-> in, after |-> after,
     item |-> [kind |-> kind, value |-> value]]
Delete(at, in) ==
    [type |-> "Delete", at |-> at, idx |-> 0, in |-> in, after |-> Undefined,
     item |-> [kind |-> KIND_OTHER, value |-> Undefined]]

Chg(pid, clk, dep, action) ==
    [pid |-> pid, clock |-> clk, dep |-> dep, action |-> action]

\* The changes a transport may deliver (frontend form).
Universe ==
    << Chg("a", 1, Undefined, Assign(ROOT, ROOT_PARENT, KIND_ARRAY, Undefined)),
       Chg("b", 1, Undefined, Assign("k", ROOT_PARENT, KIND_OTHER, "K")),
       Chg("a", 2, "a@1", Insert(Undefined, "a@1", KIND_OTHER, "A")),
       Chg("b", 2, "a@1", Insert(Undefined, "a@1", KIND_OTHER, "B")),
       Chg("b", 3, "a@2", Delete("a@2", "a@1")),
       Chg("a", 3, "a@2", ListAssign(0, "a@1", KIND_OTHER, "C")),
       Chg("c", 2, "a@1", Assign("k", "a@1", KIND_OBJECT, Undefined)),
       Chg("c", 3, Undefined, Insert(Undefined, ROOT_PARENT, KIND_ARRAY, Undefined)),
       Chg("c", 4, Undefined, ListAssign(0, ROOT_PARENT, KIND_OBJECT, Undefined)),
       Chg("c", 5, "a@2", Insert("a@2", "a@1", KIND_OTHER, "D")),
       Chg("a", 4, "a@2", Insert("a@2", "a@1", KIND_OTHER, "B")),
       Chg("a", 5, "a@4", Insert("a@4", "a@1", KIND_OTHER, "C")),
       Chg("b", 5, "a@4", Delete("a@4", "a@1")),
       Chg("b", 4, "a@2", Insert("a@2", "a@1", KIND_OTHER, "E")),
       Chg("d", 2, "b@1", Delete("b@1", ROOT_PARENT)),
       Chg("d", 3, "b@1", Assign("k", ROOT_PARENT, KIND_OTHER, "L")),
       Chg("d", 4, "a@2", Assign("k", ROOT_PARENT, KIND_OTHER, "M")) >>

Handles == 1..Len(Universe)

\* The sets of changes the sites of one run have authored: a transport
\* delivers changes of one of these sets, in any order and any number of times.
\* A document whose list a@1 holds A, B, C at the positions 0, 1, 2, as its
\* persisted log, and the changes authored on it: the Delete of B and two
\* Inserts anchored after A.
ListABC == <<1, 3, 11, 12>>
EditsABC == {10, 13, 14}

Authorings ==
    { {1, 2, 3, 5}, {1, 3, 4, 6}, {1, 7, 8, 9}, {1, 3, 5, 10}, {1, 3, 5, 7},
      EditsABC, {2, 15, 16}, {1, 3, 17} }

\* ensureBackendChange: the item of an Assign, ListAssign or Insert gets the
\* change's identity as its name; a container's value is its own name.
ensureBackendChange(change) ==
    IF change.action.type = "Delete" THEN change
    ELSE LET name == toID(change)
             kind == change.action.item.kind
             value == IF kind = KIND_OTHER THEN change.action.item.value ELSE name
             item == [name |-> name, value |-> value, kind |-> kind]
         IN [change EXCEPT !.action = [type |-> change.action.type,
                                       at |-> change.action.at,
                                       idx |-> change.action.idx,
                                       in |-> change.action.in,
                                       after |-> change.action.after,
                                       item |-> item]]

\* the backend change a handle of the log stands for, and its identity
BackendChanges == [h \in 1..Len(Universe) |-> ensureBackendChange(Universe[h])]
Identities == [h \in 1..Len(Universe) |-> toID(Universe[h])]
Backend(h) == BackendChanges[h]
IdOf(h) == Identities[h]

\* changeSortCompare(a, b) < 0: by clock, then by pid
changeSortCompare(a, b) ==
    \/ a.clock < b.clock
    \/ a.clock = b.clock /\ PidRank[a.pid] < PidRank[b.pid]

HandleLess(g, h) == changeSortCompare(Universe[g], Universe[h])

\* Array.prototype.sort(changeSortCompare) on a sequence of handles
SortChanges(hs) == SortSeq(hs, HandleLess)

\* the total order on identities, used to place concurrent insertions
IdOrder ==
    [x \in {Identities[h] : h \in 1..Len(Universe)} |->
        {Identities[h] : h \in {g \in 1..Len(Universe) :
            \E f \in 1..Len(Universe) : Identities[f] = x /\ HandleLess(f, g)}}]

IdLess(x, y) == y \in IdOrder[x]

\* ------------------------------------------------------------ container store
\* An Entry is [name, value, kind, deleted].  A container is a Map (keys: the
\* entries by logical index) or an array (slots: the entries in order).
MapObject(keys) == [array |-> FALSE, keys |-> keys, slots |-> <<>>]
ArrayObject(slots) == [array |-> TRUE, keys |-> <<>>, slots |-> slots]
EmptyKeys == [k \in {} |-> 0]

Entry(name, value, kind, deleted) ==
    [name |-> name, value |-> value, kind |-> kind, deleted |-> deleted]

NoError == "none"
Result(objects, error) == [objects |-> objects, error |-> error]

\* Map.prototype.set
MapSet(keys, k, v) == [x \in DOMAIN keys \cup {k} |-> IF x = k THEN v ELSE keys[x]]

\* the store of reapplyAllChanges before any change is applied
EmptyObjects ==
    LET root == Entry(Undefined, Undefined, KIND_OTHER, TRUE)
    IN [n \in {ROOT_PARENT} |-> MapObject(MapSet(EmptyKeys, ROOT, root))]

createMetaObject(objects, item) ==
    IF item.kind = KIND_OBJECT
    THEN [n \in DOMAIN objects \cup {item.name} |->
             IF n = item.name THEN MapObject(EmptyKeys) ELSE objects[n]]
    ELSE IF item.kind = KIND_ARRAY
    THEN [n \in DOMAIN objects \cup {item.name} |->
             IF n = item.name THEN ArrayObject(<<>>) ELSE objects[n]]
    ELSE objects

\* ------------------------------------------------------------ ArrayUtils
\* number of live (not tombstoned) entries before physical slot p
LiveBefore(list, p) == Cardinality({q \in 1..(p - 1) : ~list[q].deleted})

\* findIndexInTombstoneArray: the physical slot (1-based here) of the live
\* entry at the logical index (0-based); 0 when the index is out of range
findIndexInTombstoneArray(list, index) ==
    LET hits == {p \in 1..Len(list) : ~list[p].deleted /\ LiveBefore(list, p) = index}
    IN IF hits = {} THEN 0 ELSE CHOOSE p \in hits : TRUE

\* the physical slot of the entry named `name`; 0 when there is none
SlotOf(list, name) ==
    LET hits == {p \in 1..Len(list) : list[p].name = name}
    IN IF hits = {} THEN 0 ELSE CHOOSE p \in hits : \A q \in hits : p <= q

RECURSIVE WalkForward(_, _, _)
WalkForward(list, p, name) ==
    IF p <= Len(list) /\ IdLess(list[p].name, name)
    THEN WalkForward(list, p + 1, name)
    ELSE p

\* findInsertionIndex: just behind the anchor (the head when there is no
\* anchor), then past every entry whose identity sorts before the new one's
findInsertionIndex(list, insertion) ==
    WalkForward(list, SlotOf(list, insertion.after) + 1, insertion.item.name)

\* insertInList: splice a live entry in at physical slot p
insertInList(list, p, item) ==
    SubSeq(list, 1, p - 1)
        \o <<Entry(item.name, item.value, item.kind, FALSE)>>
        \o SubSeq(list, p, Len(list))

\* assignToList: overwrite the slot the logical index resolves to
assignToList(list, index, item) ==
    LET p == findIndexInTombstoneArray(list, index)
    IN IF p = 0 THEN list
       ELSE [list EXCEPT ![p] = Entry(item.name, item.value, item.kind, FALSE)]

\* ------------------------------------------------------------ interpreter
NoIndexable == "RangeError: Indexable element does not exist at this index"
KeyIntoList == "EvalError: Key assignment into a list should never happen"
IndexIntoObject == "EvalError: Index assignment into an object should never happen"
InsertIntoNonList == "RangeError: Cannot insert into a non-list"

ShapeErrors == {KeyIntoList, IndexIntoObject, InsertIntoNonList}

\* getMetaObject throws when the arena has no container of that name
getMetaObjectThrows(objects, name) == name \notin DOMAIN objects

\* an applyAssignment that finds the list only after creating the item's container
applyAssignment_LateThrow(objects, assignment) ==
    IF getMetaObjectThrows(objects, assignment.in) THEN Result(objects, NoIndexable)
    ELSE LET parent == objects[assignment.in]
             item == assignment.item
             entry == Entry(item.name, item.value, item.kind, FALSE)
         IN IF parent.array THEN Result(createMetaObject(objects, item), KeyIntoList)
            ELSE Result(createMetaObject(
                            [objects EXCEPT ![assignment.in] =
                                MapObject(MapSet(parent.keys, assignment.at, entry))],
                            item),
                        NoError)

applyAssignment(objects, assignment) ==
    IF getMetaObjectThrows(objects, assignment.in) THEN Result(objects, NoIndexable)
    ELSE LET parent == objects[assignment.in]
             item == assignment.item
             entry == Entry(item.name, item.value, item.kind, FALSE)
         IN IF parent.array THEN Result(objects, KeyIntoList)
            ELSE Result(createMetaObject(
                            [objects EXCEPT ![assignment.in] =
                                MapObject(MapSet(parent.keys, assignment.at, entry))],
                            item),
                        NoError)

applyListAssignment(objects, assignment) ==
    IF getMetaObjectThrows(objects, assignment.in) THEN Result(objects, NoIndexable)
    ELSE LET parent == objects[assignment.in]
             item == assignment.item
         IN IF parent.array
            THEN Result(createMetaObject(
                            [objects EXCEPT ![assignment.in] =
                                ArrayObject(assignToList(parent.slots, assignment.idx, item))],
                            item),
                        NoError)
            ELSE Result(objects, IndexIntoObject)

\* an applyInsertion that splices right behind the anchor, without the tie-break
applyInsertion_AtAnchor(objects, insertion) ==
    IF getMetaObjectThrows(objects, insertion.in) THEN Result(objects, NoIndexable)
    ELSE LET parent == objects[insertion.in]
             item == insertion.item
         IN IF parent.array
            THEN LET index == SlotOf(parent.slots, insertion.after) + 1
                 IN Result(createMetaObject(
                               [objects EXCEPT ![insertion.in] =
                                   ArrayObject(insertInList(parent.slots, index, item))],
                               item),
                           NoError)
            ELSE Result(objects, InsertIntoNonList)

applyInsertion(objects, insertion) ==
    IF getMetaObjectThrows(objects, insertion.in) THEN Result(objects, NoIndexable)
    ELSE LET parent == objects[insertion.in]
             item == insertion.item
         IN IF parent.array
            THEN LET index == findInsertionIndex(parent.slots, insertion)
                 IN Result(createMetaObject(
                               [objects EXCEPT ![insertion.in] =
                                   ArrayObject(insertInList(parent.slots, index, item))],
                               item),
                           NoError)
            ELSE Result(objects, InsertIntoNonList)

applyDeletion(objects, deletion) ==
    IF getMetaObjectThrows(objects, deletion.in) THEN Result(objects, NoIndexable)
    ELSE LET parent == objects[deletion.in]
             flag(entry) == IF entry.name = deletion.at
                            THEN [entry EXCEPT !.deleted = TRUE] ELSE entry
         IN IF parent.array
            THEN Result([objects EXCEPT ![deletion.in] =
                            ArrayObject([p \in DOMAIN parent.slots |-> flag(parent.slots[p])])],
                        NoError)
            ELSE Result([objects EXCEPT ![deletion.in] =
                            MapObject([k \in DOMAIN parent.keys |-> flag(parent.keys[k])])],
                        NoError)

applyChange(objects, change) ==
    LET action == change.action
    IN IF action.type = "Assign" THEN applyAssignment(objects, action)
       ELSE IF action.type = "ListAssign" THEN applyListAssignment(objects, action)
       ELSE IF action.type = "Insert" THEN applyInsertion(objects, action)
       ELSE IF action.type = "Delete" THEN applyDeletion(objects, action)
       ELSE Result(objects, NoError)

\* ------------------------------------------------------------ replay engine
\* a gate that lets every change through
eligible_Ungated(change, seenIds) == TRUE

\* the filter of applyChanges: no dependency, or a dependency that is seen
eligible(change, seenIds) == change.dep = Undefined \/ change.dep \in seenIds

\* applyChanges from position i of the sequence: the changes whose dependency
\* is not seen are skipped; the first exception ends the pass.  `run` is
\* [objects, error, applied, before]: the store, the exception thrown (if
\* any), the handles applied to this build of the store, and the store as it
\* was when the change that threw was reached.
RECURSIVE applyFrom(_, _, _, _)
applyFrom(hs, i, seenIds, run) ==
    IF i > Len(hs) \/ run.error # NoError THEN run
    ELSE LET change == Backend(hs[i])
         IN IF ~eligible(change, seenIds)
            THEN applyFrom(hs, i + 1, seenIds, run)
            ELSE LET r == applyChange(run.objects, change)
                 IN applyFrom(hs, i + 1, seenIds,
                        [objects |-> r.objects,
                         error |-> r.error,
                         applied |-> IF r.error = NoError
                                     THEN run.applied \cup {hs[i]} ELSE run.applied,
                         failed |-> IF r.error = NoError THEN 0 ELSE hs[i],
                         before |-> IF r.error = NoError THEN EmptyObjects
                                    ELSE run.objects])

applyChanges(hs, seenIds, objects, applied) ==
    applyFrom(hs, 1, seenIds,
              [objects |-> objects, error |-> NoError, applied |-> applied,
               failed |-> 0, before |-> EmptyObjects])

reapplyAllChanges(hs, seenIds) == applyChanges(hs, seenIds, EmptyObjects, {})

IdsOf(hs) == {IdOf(hs[i]) : i \in 1..Len(hs)}

\* a witness that records the first change of the batch only
witness_FirstOnly(seenIds, hs) ==
    seenIds \cup (IF Len(hs) > 0 THEN {IdOf(hs[1])} ELSE {})

\* witness
witness(seenIds, hs) == seenIds \cup IdsOf(hs)

\* appendChanges / insertChanges: the log and the clock they leave
appendChanges(log, clk, hs) ==
    [changes |-> log \o hs, clock |-> Universe[hs[Len(hs)]].clock]

insertChanges(log, clk, hs) ==
    [changes |-> SortChanges(log \o hs), clock |-> clk]

\* A State instance, with what its last call returned or threw.
Instance(log, seenIds, clk, run, returned) ==
    [changes |-> log, seen |-> seenIds, clock |-> clk, objects |-> run.objects,
     applied |-> run.applied, returned |-> returned, error |-> run.error,
     failed |-> run.failed, before |-> run.before]

\* new State(changes)
Construct(log) ==
    LET clk == IF Len(log) > 0 THEN Universe[log[Len(log)]].clock ELSE 0
        seenIds == witness({}, log)
    IN Instance(log, seenIds, clk, reapplyAllChanges(log, seenIds), <<>>)

\* the changes of a batch that addChange accepts: not seen, sorted
accepted(seenIds, input) ==
    SortChanges(SelectSeq(input, LAMBDA h : IdOf(h) \notin seenIds))

\* addChange(input) on the instance st
addChange(st, input) ==
    LET backendChanges == accepted(st.seen, input)
        seenIds == witness(st.seen, backendChanges)
    IN IF Len(backendChanges) > 0 /\ Universe[backendChanges[1]].clock > st.clock
       THEN LET log == appendChanges(st.changes, st.clock, backendChanges)
            IN Instance(log.changes, seenIds, log.clock,
                        applyChanges(backendChanges, seenIds, st.objects, st.applied),
                        backendChanges)
       ELSE IF Len(backendChanges) > 0
       THEN LET log == insertChanges(st.changes, st.clock, backendChanges)
            IN Instance(log.changes, seenIds, log.clock,
                        reapplyAllChanges(log.changes, seenIds),
                        backendChanges)
       ELSE Instance(st.changes, seenIds, st.clock,
                     [objects |-> st.objects, error |-> NoError, applied |-> st.applied,
                      failed |-> 0, before |-> EmptyObjects],
                     backendChanges)

\* next(), latest(), listChanges()
next(st) == st.clock + 1
latest(st) == IF Len(st.changes) > 0 THEN IdOf(st.changes[Len(st.changes)]) ELSE Undefined
listChanges(st) == st.changes

\* ------------------------------------------------------------ navigator
\* A logical index is a key (of a Map) or a position (of an array).
KeyIndex(k) == [isKey |-> TRUE, key |-> k, pos |-> 0]
PosIndex(n) == [isKey |-> FALSE, key |-> Undefined, pos |-> n]

\* what getElementImpl's reducer and its callers give back: a name, or the
\* exception thrown
Found(name) == [value |-> name, error |-> NoError]
Thrown(err) == [value |-> Undefined, error |-> err]

\* one step of the reducer of getElementImpl: the entry at `index` of the
\* container called `name`, and the name the walk goes on with
stepElement(objects, name, index) ==
    IF getMetaObjectThrows(objects, name) THEN Thrown(NoIndexable)
    ELSE LET metaObject == objects[name]
             p == IF index.isKey THEN 0
                  ELSE findIndexInTombstoneArray(metaObject.slots, index.pos)
             present == IF metaObject.array THEN p # 0
                        ELSE index.isKey /\ index.key \in DOMAIN metaObject.keys
             entry == IF metaObject.array THEN metaObject.slots[p]
                      ELSE metaObject.keys[index.key]
         IN IF ~present THEN Found(Undefined)
            ELSE IF entry.deleted THEN Found(Undefined)
            ELSE IF entry.kind = KIND_OTHER THEN Found(entry.name)
            ELSE Found(entry.value)

RECURSIVE getElementImpl(_, _, _, _)
getElementImpl(objects, indices, i, name) ==
    IF i > Len(indices) THEN Found(name)
    ELSE LET r == stepElement(objects, name, indices[i])
         IN IF r.error # NoError THEN r
            ELSE getElementImpl(objects, indices, i + 1, r.value)

\* getElement(indices)
getElement(objects, indices) ==
    getElementImpl(objects, <<KeyIndex(ROOT)>> \o indices, 1, ROOT_PARENT)

\* ------------------------------------------------------------ renderer
\* render: the plain value of the document as a sequence of tokens; a list is
\* "[" its live elements "]", a map is "{" key value ... "}" over the keys in
\* the order of KeyOrder, a primitive is its payload.
KeyOrder == <<ROOT, "k">>

RECURSIVE renderEntry(_, _)
RECURSIVE renderSlots(_, _, _)
RECURSIVE renderKeys(_, _, _)
renderEntry(objects, entry) ==
    IF entry.deleted THEN <<Undefined>>
    ELSE IF entry.kind = KIND_OTHER THEN <<entry.value>>
    ELSE IF entry.value \notin DOMAIN objects THEN <<Undefined>>
    ELSE LET obj == objects[entry.value]
         IN IF obj.array
            THEN <<"[">> \o renderSlots(objects, obj.slots, 1) \o <<"]">>
            ELSE <<"{">> \o renderKeys(objects, obj.keys, 1) \o <<"}">>
renderSlots(objects, slots, p) ==
    IF p > Len(slots) THEN <<>>
    ELSE (IF slots[p].deleted THEN <<>> ELSE renderEntry(objects, slots[p]))
             \o renderSlots(objects, slots, p + 1)
renderKeys(objects, keys, i) ==
    IF i > Len(KeyOrder) THEN <<>>
    ELSE (IF KeyOrder[i] \in DOMAIN keys /\ ~keys[KeyOrder[i]].deleted
          THEN <<KeyOrder[i]>> \o renderEntry(objects, keys[KeyOrder[i]])
          ELSE <<>>)
             \o renderKeys(objects, keys, i + 1)

render(objects) == renderEntry(objects, objects[ROOT_PARENT].keys[ROOT])

\* ------------------------------------------------------------ state machine
VARIABLES
    authored,  \* the changes that exist in this run (handles)
    changes,   \* the log
    seen,      \* _seen
    clock,     \* the high-water clock
    objects,   \* the container store
    applied,   \* handles applied to the current build of the store
    returned,  \* what the last addChange returned (built, when it threw)
    error,     \* the exception the last call threw, or NoError
    failed,    \* the handle whose application threw, or 0
    before     \* the store as it was when that change was reached

vars ==
    <<authored, changes, seen, clock, objects, applied, returned, error, failed,
      before>>

\* the instance the variables hold
This ==
    [changes |-> changes, seen |-> seen, clock |-> clock, objects |-> objects,
     applied |-> applied, returned |-> returned, error |-> error,
     failed |-> failed, before |-> before]

Become(st) ==
    /\ changes' = st.changes
    /\ seen' = st.seen
    /\ clock' = st.clock
    /\ objects' = st.objects
    /\ applied' = st.applied
    /\ returned' = st.returned
    /\ error' = st.error
    /\ failed' = st.failed
    /\ before' = st.before

\* the sorted logs a State is constructed from: empty, or one persisted
\* change; the edits of the document A, B, C start from its log
PersistedLogs(S) ==
    IF S = EditsABC THEN {ListABC}
    ELSE {<<>>} \cup {<<h>> : h \in {g \in S : Universe[g].dep = Undefined}}

\* the batches a caller may hand to addChange
Batches(S) == UNION {[1..n -> S] : n \in 0..MaxBatch}

Init ==
    \E S \in Authorings :
        \E log \in PersistedLogs(S) :
            \E st \in {Construct(log)} :
                /\ st.error = NoError
                /\ authored = S
                /\ changes = st.changes
                /\ seen = st.seen
                /\ clock = st.clock
                /\ objects = st.objects
                /\ applied = st.applied
                /\ returned = st.returned
                /\ error = st.error
                /\ failed = st.failed
                /\ before = st.before

\* addChange(batch)
AddChange ==
    \E input \in Batches(authored) :
        \E st \in {addChange(This, input)} :
            /\ Become(st)
            /\ UNCHANGED authored

Next == AddChange

Spec == Init /\ [][Next]_vars

\* ============================================================ claims
\* helpers of the claims
Range(sq) == {sq[i] : i \in 1..Len(sq)}
Count(sq, x) == Cardinality({i \in 1..Len(sq) : sq[i] = x})

RECURSIVE SeqOfSet(_)
SeqOfSet(T) ==
    IF T = {} THEN <<>>
    ELSE LET x == CHOOSE y \in T : TRUE IN <<x>> \o SeqOfSet(T \ {x})

\* the changes this instance has received
Delivered == {h \in authored : IdOf(h) \in seen}

\* every dependency of T is a change of T that sorts before its dependent
CausallyConsistent(T) ==
    \A h \in T : Universe[h].dep # Undefined =>
        \E g \in T : IdOf(g) = Universe[h].dep /\ HandleLess(g, h)

\* a second instance that starts empty and receives T in clock order
InClockOrder(T) == addChange(Construct(<<>>), SortChanges(SeqOfSet(T)))

\* the log holds every received change once
EachOnce == Len(changes) = Cardinality(Delivered)

\* C1: Convergence.  An instance that has received the changes of a causally
\* consistent set, each once, in whatever batches and order, renders what an
\* instance renders that started empty and received the same set in clock
\* order (neither call sequence having thrown at its last call).
C1_Convergence ==
    (/\ CausallyConsistent(Delivered)
     /\ EachOnce
     /\ error = NoError
     /\ InClockOrder(Delivered).error = NoError)
        => render(objects) = render(InClockOrder(Delivered).objects)

\* a batch with one copy of each of its changes
RECURSIVE Distinct(_)
Distinct(sq) ==
    IF sq = <<>> THEN <<>>
    ELSE LET rest == Distinct(SubSeq(sq, 1, Len(sq) - 1))
         IN IF sq[Len(sq)] \in Range(rest) THEN rest ELSE Append(rest, sq[Len(sq)])

\* C2: Idempotence.  Every addChange call leaves the log as long, and the
\* document rendering the same, as the call would have with each change it
\* accepted submitted once (changes already seen are not accepted at all).
C2_Idempotence ==
    [][LET once == addChange(This, Distinct(returned'))
       IN /\ Len(changes') = Len(once.changes)
          /\ render(objects') = render(once.objects)]_vars

\* C3: Deferred operations become visible.  When a call that returns normally
\* delivers the dependency of a change of the log that was skipped for want of
\* it, that change is applied to the store when the call returns.
C3_DeferredBecomeVisible ==
    [][\A i \in 1..Len(changes) :
          LET x == changes[i]
              d == Universe[x].dep
          IN (d # Undefined /\ d \notin seen /\ d \in seen' /\ error' = NoError)
                => x \in applied']_vars

\* the names of the entries of the store
EntryNames(objs) ==
    UNION {{objs[n].slots[p].name : p \in 1..Len(objs[n].slots)}
               \cup {objs[n].keys[k].name : k \in DOMAIN objs[n].keys} :
           n \in DOMAIN objs}

\* the changes of the log whose dependency has not been seen
Deferred == {h \in Range(changes) : Universe[h].dep # Undefined /\ Universe[h].dep \notin seen}

\* C4: Causal gating.  A change whose dependency is not in the seen-set has
\* not been applied to the store and no entry of the store carries its item;
\* a change without dependency that a normally returning call accepted has
\* been applied.
C4_CausalGating ==
    /\ \A h \in Deferred :
          /\ h \notin applied
          /\ Universe[h].action.type # "Delete" => IdOf(h) \notin EntryNames(objects)
    /\ error = NoError =>
          \A h \in Range(returned) : Universe[h].dep = Undefined => h \in applied

\* a deferred change sits in the log next to applied ones
C4_Witness ==
    /\ Deferred # {}
    /\ applied # {}
    /\ \E h \in Deferred : Universe[h].action.type # "Delete"

\* C5: the log is sorted by the total order (clock, then pid).
C5_LogSorted ==
    \A i \in 1..Len(changes), j \in 1..Len(changes) :
        i < j => ~HandleLess(changes[j], changes[i])

\* C6: the high-water clock is the greatest clock of the log (0 for an empty
\* log), so next() exceeds the clock of every change of the log.
C6_HighWaterClock ==
    /\ \A i \in 1..Len(changes) : Universe[changes[i]].clock <= clock
    /\ changes # <<>> => \E i \in 1..Len(changes) : Universe[changes[i]].clock = clock
    /\ changes = <<>> => clock = 0
    /\ \A i \in 1..Len(changes) : next(This) > Universe[changes[i]].clock

\* C7: every identity appears at most once in the log.
C7_IdentityOnce ==
    \A i \in 1..Len(changes), j \in 1..Len(changes) :
        IdOf(changes[i]) = IdOf(changes[j]) => i = j

\* the changes of a sequence, with their numbers of copies
Copies(sq) == [h \in Handles |-> Count(sq, h)]

\* C8: addChange returns exactly the newly accepted changes.  For every batch
\* that makes the call return what it returned: each change of the batch whose
\* identity was not seen is returned once, nothing else is returned, the
\* returned sequence is sorted, and the log gains exactly the returned changes.
C8_ReturnsNewlyAccepted ==
    [][\A input \in Batches(authored) :
          accepted(seen, input) = returned' =>
              /\ \A h \in Range(input) : IdOf(h) \notin seen => Count(returned', h) = 1
              /\ \A h \in Range(returned') : h \in Range(input) /\ IdOf(h) \notin seen
              /\ \A i \in 1..Len(returned'), j \in 1..Len(returned') :
                    i < j => ~HandleLess(returned'[j], returned'[i])
              /\ Copies(changes') = [h \in Handles |->
                                        Copies(changes)[h] + Copies(returned')[h]]]_vars

\* C9: Persistence round trip.  A State constructed from listChanges() has
\* the same log, next(), latest() and render() as the instance itself.
C9_RoundTrip ==
    LET copy == Construct(listChanges(This))
    IN /\ listChanges(copy) = listChanges(This)
       /\ next(copy) = next(This)
       /\ latest(copy) = latest(This)
       /\ render(copy.objects) = render(objects)

\* the shape a change's kind of action needs of its target container
NeedsArray(h) == Universe[h].action.type \in {"ListAssign", "Insert"}
NeedsMap(h) == Universe[h].action.type = "Assign"

\* C10: Shape-fatal error.  A change that throws a shape error leaves its
\* target container as it was and creates no container for its item; and no
\* Assign has been applied to a list, no ListAssign or Insert to a map.
C10_ShapeFatal ==
    /\ error \in ShapeErrors =>
          LET target == Universe[failed].action.in
          IN /\ target \in DOMAIN before
             /\ objects[target] = before[target]
             /\ DOMAIN objects = DOMAIN before
             /\ (NeedsMap(failed) => before[target].array)
             /\ (NeedsArray(failed) => ~before[target].array)
    /\ \A h \in applied :
          LET target == Universe[h].action.in
          IN /\ target \in DOMAIN objects
             /\ (NeedsMap(h) => ~objects[target].array)
             /\ (NeedsArray(h) => objects[target].array)

\* an Assign into a list has thrown after other changes were applied
C10_Witness ==
    /\ error = KeyIntoList
    /\ failed # 0
    /\ applied # {}
    /\ before[Universe[failed].action.in].slots # <<>>

\* the paths a caller may hand to getElement
Indices == {KeyIndex("k"), PosIndex(0), PosIndex(1)}
Paths == UNION {[1..n -> Indices] : n \in 0..MaxPath}

\* C11: Addressing failure is a value.  When a prefix of a path resolves to
\* an absent identity (the element there is missing or tombstoned), getElement
\* on the whole path returns an absent identity and does not throw.
C11_AddressingFailureIsValue ==
    \A path \in Paths :
        (\E n \in 0..Len(path) :
            LET prefix == getElement(objects, SubSeq(path, 1, n))
            IN prefix.error = NoError /\ prefix.value = Undefined)
        => LET r == getElement(objects, path)
           IN r.error = NoError /\ r.value = Undefined

\* the change that introduced the entry of that name
HandleOf(name) == CHOOSE h \in Handles : IdOf(h) = name

\* two entries that two different Inserts at one anchor of the list n made
ConcurrentInserts(n, x, y) ==
    /\ x.name # y.name
    /\ \A e \in {x, y} :
          /\ Universe[HandleOf(e.name)].action.type = "Insert"
          /\ Universe[HandleOf(e.name)].action.in = n
    /\ Universe[HandleOf(x.name)].action.after = Universe[HandleOf(y.name)].action.after

\* C12: Insertion tie-break determinism.  In every list, of two elements that
\* different Inserts at the same anchor made, the one of the higher identity
\* comes later, in whatever order and calls the two Inserts arrived.
C12_InsertTieBreak ==
    \A n \in DOMAIN objects :
        \A p \in 1..Len(objects[n].slots), q \in 1..Len(objects[n].slots) :
            (p < q /\ ConcurrentInserts(n, objects[n].slots[p], objects[n].slots[q]))
                => IdLess(objects[n].slots[p].name, objects[n].slots[q].name)

\* both head Inserts are in the list, the one of the lower identity having
\* arrived alone in the last call, after the other
C12_Witness ==
    /\ returned = <<3>>
    /\ {3, 4} \subseteq applied
    /\ error = NoError
    /\ \E p \in 1..Len(objects["a@1"].slots), q \in 1..Len(objects["a@1"].slots) :
          /\ objects["a@1"].slots[p].name = "a@2"
          /\ objects["a@1"].slots[q].name = "b@2"

\* the positions of a payload in a rendered value
PositionsOf(tokens, payload) == {i \in 1..Len(tokens) : tokens[i] = payload}

\* C13: Tombstone stability.  With A, B, C at the positions 0, 1, 2 of the
\* list and B deleted, render() is [A, C]; and an Insert anchored after A
\* that is applied as well stands between A and C in render(), in whatever
\* order the Insert and the Delete arrived.
C13_TombstoneStability ==
    (authored = EditsABC /\ error = NoError /\ 13 \in applied) =>
        LET tokens == render(objects)
        IN /\ Range(changes) \cap {10, 14} = {} => tokens = <<"[", "A", "C", "]">>
           /\ \A x \in {10, 14} :
                 x \in applied =>
                     \A i \in PositionsOf(tokens, Universe[x].action.item.value) :
                         /\ \E j \in PositionsOf(tokens, "A") : j < i
                         /\ \E k \in PositionsOf(tokens, "C") : i < k

\* C14: Fast path equals full rebuild.  After every addChange call that
\* returned normally, the store is the store that replaying the whole log in
\* sorted order, from the empty root and under the current seen-set, builds.
C14_FastPathEqualsRebuild ==
    error = NoError =>
        objects = reapplyAllChanges(SortChanges(changes), seen).objects

\* C15: addChange is all-or-nothing.  A call that fails with an error leaves
\* the log, the seen-set, the high-water clock and the store as they were
\* before the call.
C15_AllOrNothing ==
    [][error' # NoError =>
          /\ changes' = changes
          /\ seen' = seen
          /\ clock' = clock
          /\ objects' = objects]_vars

\* the Deletes of this run, and the live entries of a container
Deletes == {h \in Handles : Universe[h].action.type = "Delete"}
LiveNames(obj) ==
    {obj.slots[p].name : p \in {q \in DOMAIN obj.slots : ~obj.slots[q].deleted}}
        \cup {obj.keys[k].name : k \in {j \in DOMAIN obj.keys : ~obj.keys[j].deleted}}

\* C16: Delete is always tolerated.  The change whose application threw is
\* never a Delete; and a Delete whose target is tombstoned or not in the
\* named parent leaves the store as it is.
C16_DeleteTolerated ==
    /\ failed # 0 => failed \notin Deletes
    /\ \A d \in Deletes :
          LET deletion == Backend(d).action
          IN (deletion.in \in DOMAIN objects
                 /\ deletion.at \notin LiveNames(objects[deletion.in]))
                => applyDeletion(objects, deletion) = Result(objects, NoError)

\* the tombstones of a store: the container and the identity of every entry
\* flagged deleted (the placeholder of ROOT has no identity)
Tombstones(objs) ==
    UNION {{<<n, objs[n].slots[p].name>> :
                p \in {q \in DOMAIN objs[n].slots : objs[n].slots[q].deleted}}
           \cup {<<n, objs[n].keys[k].name>> :
                p \in {0}, k \in {j \in DOMAIN objs[n].keys :
                           objs[n].keys[j].deleted /\ objs[n].keys[j].name # Undefined}}
           : n \in DOMAIN objs}

\* C17: Tombstones are permanent.  An entry that is flagged deleted in a
\* container is in that container, flagged deleted, after every later call.
C17_TombstonesPermanent ==
    [][Tombstones(objects) \subseteq Tombstones(objects')]_vars

\* the entries of a container, tombstones included
EntriesOf(obj) ==
    {obj.slots[p] : p \in DOMAIN obj.slots} \cup {obj.keys[k] : k \in DOMAIN obj.keys}

\* every entry of kind map or list has its container, of that shape
EntriesHaveContainers(objs) ==
    \A n \in DOMAIN objs : \A entry \in EntriesOf(objs[n]) :
        entry.kind \in {KIND_OBJECT, KIND_ARRAY} =>
            /\ entry.name \in DOMAIN objs
            /\ objs[entry.name].array = (entry.kind = KIND_ARRAY)

\* the changes of an apply pass for which createMetaObject made a container
MakesContainer(h) ==
    /\ Universe[h].action.type # "Delete"
    /\ Universe[h].action.item.kind \in {KIND_OBJECT, KIND_ARRAY}
Made(pass, done) == SelectSeq(pass, LAMBDA h : h \in done /\ MakesContainer(h))

\* C18: Arena consistency.  Every entry of kind map or list has a container
\* of its identity and of the matching shape in the arena; and within one
\* build of the store no container is removed, and none is made again for an
\* identity that has its container (which would replace it).
C18_ArenaConsistency ==
    [][LET fast == Len(returned') > 0 /\ Universe[returned'[1]].clock > clock
           pass == IF fast THEN returned' ELSE changes'
           prior == IF fast THEN DOMAIN objects ELSE {ROOT_PARENT}
           made == Made(pass, applied')
       IN /\ EntriesHaveContainers(objects)
          /\ EntriesHaveContainers(objects')
          /\ Len(returned') > 0 =>
                /\ \A n \in prior :
                      n \in DOMAIN objects' /\ (fast => objects'[n].array = objects[n].array)
                /\ \A i \in DOMAIN made :
                      /\ IdOf(made[i]) \notin prior
                      /\ \A j \in 1..(i - 1) : made[j] # made[i]]_vars

\* C19: Transitive causal gating.  Every change with a dependency that has
\* been applied to this build of the store, or was being applied when the
\* pass threw, has its dependency among the changes applied to the build.
C19_DependencyApplied ==
    \A h \in applied \cup ({failed} \ {0}) :
        Universe[h].dep # Undefined =>
            \E g \in applied : IdOf(g) = Universe[h].dep

\* C20: Seen-set and log agree.  Before and after every call, also one that
\* threw, the seen-set is the set of the identities of the changes in the
\* log, and the log holds every change it held before, as often or more.
C20_SeenIsLog ==
    [][/\ seen = IdsOf(changes)
       /\ seen' = IdsOf(changes')
       /\ \A h \in Handles : Copies(changes')[h] >= Copies(changes)[h]]_vars

\* a call has thrown, and the changes it accepted are in the log and seen
C20_Witness ==
    /\ error # NoError
    /\ Len(returned) > 1
    /\ Range(returned) \subseteq Range(changes)
    /\ IdsOf(returned) \subseteq seen

====
